---- MODULE Spec2Model ----
(***************************************************************************)
(* Model of the MicroPython TM1637 driver (src/tm1637.py).                 *)
(*                                                                         *)
(* The device handle is the state: the stored brightness and digit count,  *)
(* the level of the two GPIO lines, and the trace of the bus-layer calls   *)
(* (_start, _write_byte, _stop, pin init, sleeps) made by the most recent  *)
(* public call.  Each public method is one action.  The pin-level          *)
(* behaviour of a bus-layer call is given by the operators _start, _stop   *)
(* and _write_byte, and Pins(log) expands a call trace into the sequence   *)
(* of pin writes and delays it performs.                                   *)
(*                                                                         *)
(* Strings are sequences of code points.  Arithmetic follows the Python    *)
(* language (10 ** negative is a fraction).                                *)
(***************************************************************************)
EXTENDS Integers, Sequences, FiniteSets, TLC

VARIABLES
    constructed,   \* TRUE once __init__ has returned normally
    _brightness,   \* self._brightness (-1 while no handle exists)
    _digits,       \* self._digits     (-1 while no handle exists)
    clk,           \* level of the clock line: -1 not initialised, 0, 1
    dio,           \* level of the data line:  -1 not initialised, 0, 1
    log,           \* bus-layer calls made by the most recent public call
    call           \* the most recent public call: its name, arguments, outcome

vars == <<constructed, _brightness, _digits, clk, dio, log, call>>

----------------------------------------------------------------------------
(* Module constants, src/tm1637.py:33-42 *)

TM1637_MAX_DIGITS == 6
TM1637_CMD1 == 64
TM1637_CMD2 == 192
TM1637_CMD3 == 128
TM1637_DSP_ON == 8
TM1637_DELAY == 10
TM1637_MSB == 128

_SEGMENTS ==
    << 63, 6, 91, 79, 102, 109, 125, 7, 127, 111,
       119, 124, 57, 94, 121, 113, 61, 118, 6, 30, 118, 56, 85, 84, 63, 115,
       103, 80, 109, 120, 62, 28, 42, 118, 110, 91,
       0, 64, 99 >>

(* _SEGMENTS[i] with Python's 0-based index *)
SegAt(i) == _SEGMENTS[i + 1]

----------------------------------------------------------------------------
(* Bounds of the model *)

MaxLen == 3        \* longest segment sequence handed to write
MaxScroll == 2     \* longest segment list handed to scroll
MaxOrd == 127      \* largest code point handed to encode_char
MaxStr == 3        \* longest string handed to TM1637Decimal.encode_string

----------------------------------------------------------------------------
(* Integer bit operations on bytes *)

Bit(b, i) == (b \div (2 ^ i)) % 2

RECURSIVE OrBits(_, _, _)
OrBits(a, b, i) ==
    IF i > 7 THEN 0
    ELSE (IF Bit(a, i) = 1 \/ Bit(b, i) = 1 THEN 2 ^ i ELSE 0) + OrBits(a, b, i + 1)

(* a | b for 0 <= a, b <= 255 *)
BitOr(a, b) == OrBits(a, b, 0)

----------------------------------------------------------------------------
(* Outcome of a method body: the exception raised ("" for a normal return) *)
(* and the bus-layer calls made up to that point.                          *)

Ok(l) == [err |-> "", log |-> l]
Raise(e) == [err |-> e, log |-> << >>]

(* r1 ; r2 -- the second statement runs only if the first did not raise *)
Then(r1, r2) ==
    IF r1.err # "" THEN r1 ELSE [err |-> r2.err, log |-> r1.log \o r2.log]

BusCall(f, a) == [fn |-> f, arg |-> a]

----------------------------------------------------------------------------
(* Bus protocol layer, pin level.  A pin event is a write of a level to a  *)
(* line, the initialisation of a line as an output, or a delay.            *)

SetDio(v) == [pin |-> "dio", v |-> v]
SetClk(v) == [pin |-> "clk", v |-> v]
InitDio(v) == [pin |-> "dio.init", v |-> v]
InitClk(v) == [pin |-> "clk.init", v |-> v]
SleepUs(t) == [pin |-> "sleep_us", v |-> t]
SleepMs(t) == [pin |-> "sleep_ms", v |-> t]

_start ==
    << SetDio(0), SleepUs(TM1637_DELAY), SetClk(0), SleepUs(TM1637_DELAY) >>

_stop ==
    << SetDio(0), SleepUs(TM1637_DELAY), SetClk(1), SleepUs(TM1637_DELAY),
       SetDio(1) >>

(* Mutation: the bits go out most significant first *)
WriteBit_MsbFirst(b, i) ==
    << SetDio(Bit(b, 7 - i)), SleepUs(TM1637_DELAY), SetClk(1),
       SleepUs(TM1637_DELAY), SetClk(0), SleepUs(TM1637_DELAY) >>

WriteBit(b, i) ==
    << SetDio(Bit(b, i)), SleepUs(TM1637_DELAY), SetClk(1),
       SleepUs(TM1637_DELAY), SetClk(0), SleepUs(TM1637_DELAY) >>

RECURSIVE WriteBits(_, _)
WriteBits(b, i) ==
    IF i > 7 THEN << >> ELSE WriteBit(b, i) \o WriteBits(b, i + 1)

_write_byte(b) ==
    WriteBits(b, 0) \o
    << SetClk(0), SleepUs(TM1637_DELAY), SetClk(1), SleepUs(TM1637_DELAY),
       SetClk(0), SleepUs(TM1637_DELAY) >>

(* Pin events of one bus-layer call *)
PinsOf(c) ==
    CASE c.fn = "_start" -> _start
      [] c.fn = "_stop" -> _stop
      [] c.fn = "_write_byte" -> _write_byte(c.arg)
      [] c.fn = "clk.init" -> << InitClk(c.arg) >>
      [] c.fn = "dio.init" -> << InitDio(c.arg) >>
      [] c.fn = "sleep_us" -> << SleepUs(c.arg) >>
      [] c.fn = "sleep_ms" -> << SleepMs(c.arg) >>

RECURSIVE PinsFrom(_, _)
PinsFrom(l, i) ==
    IF i > Len(l) THEN << >> ELSE PinsOf(l[i]) \o PinsFrom(l, i + 1)

(* Pin events of a whole call trace *)
Pins(l) == PinsFrom(l, 1)

(* Level of a line after the pin events ev, starting from level v0 *)
RECURSIVE LevelAfter(_, _, _, _)
LevelAfter(ev, line, v0, i) ==
    IF i = 0 THEN v0
    ELSE IF ev[i].pin \in {line, line \o ".init"} THEN ev[i].v
    ELSE LevelAfter(ev, line, v0, i - 1)

(* Level of a line after the call trace l: the last write to it, if any *)
RECURSIVE LineAfter(_, _, _, _)
LineAfter(l, line, v0, i) ==
    IF i = 0 THEN v0
    ELSE LET ev == PinsOf(l[i])
             v == LevelAfter(ev, line, -2, Len(ev))
         IN  IF v # -2 THEN v ELSE LineAfter(l, line, v0, i - 1)

----------------------------------------------------------------------------
(* Command / session layer: traces of bus-layer calls *)

_write_data_cmd ==
    << BusCall("_start", 0), BusCall("_write_byte", TM1637_CMD1),
       BusCall("_stop", 0) >>

(* Mutation: the display-on flag is left out of the display control byte *)
_write_dsp_ctrl_NoDisplayOn(brightness) ==
    << BusCall("_start", 0),
       BusCall("_write_byte", BitOr(TM1637_CMD3, brightness)),
       BusCall("_stop", 0) >>

_write_dsp_ctrl(brightness) ==
    << BusCall("_start", 0),
       BusCall("_write_byte", BitOr(BitOr(TM1637_CMD3, TM1637_DSP_ON), brightness)),
       BusCall("_stop", 0) >>

(* Mutation: the upper limit of the digit count is not checked *)
__init__NoMaxDigits(brightness, digits) ==
    IF ~(0 <= brightness /\ brightness <= 7)
    THEN Raise("ValueError: Brightness out of range")
    ELSE IF ~(1 <= digits)
    THEN Raise("ValueError: Number of digits should be between 1 and 6")
    ELSE Ok(<< BusCall("clk.init", 0), BusCall("dio.init", 0),
               BusCall("sleep_us", TM1637_DELAY) >>
            \o _write_data_cmd \o _write_dsp_ctrl(brightness))

__init__(brightness, digits) ==
    IF ~(0 <= brightness /\ brightness <= 7)
    THEN Raise("ValueError: Brightness out of range")
    ELSE IF ~(1 <= digits /\ digits <= TM1637_MAX_DIGITS)
    THEN Raise("ValueError: Number of digits should be between 1 and 6")
    ELSE Ok(<< BusCall("clk.init", 0), BusCall("dio.init", 0),
               BusCall("sleep_us", TM1637_DELAY) >>
            \o _write_data_cmd \o _write_dsp_ctrl(brightness))

(* Mutation: the upper limit of the brightness is not checked *)
brightness_NoUpperCheck(val) ==
    IF ~(0 <= val)
    THEN Raise("ValueError: Brightness out of range")
    ELSE Ok(_write_data_cmd \o _write_dsp_ctrl(val))

(* Mutation: the lower limit of the brightness is not checked *)
brightness_NoLowerCheck(val) ==
    IF ~(val <= 7)
    THEN Raise("ValueError: Brightness out of range")
    ELSE Ok(_write_data_cmd \o _write_dsp_ctrl(val))

brightness(val) ==
    IF ~(0 <= val /\ val <= 7)
    THEN Raise("ValueError: Brightness out of range")
    ELSE Ok(_write_data_cmd \o _write_dsp_ctrl(val))

(* Mutation: the display control command is not re-issued after the data *)
write_NoDspCtrl(segments, pos, digits, bright) ==
    IF ~(0 <= pos /\ pos < digits)
    THEN Raise("ValueError: Position out of range")
    ELSE Ok(_write_data_cmd
            \o << BusCall("_start", 0),
                  BusCall("_write_byte", BitOr(TM1637_CMD2, pos)) >>
            \o [i \in 1..Len(segments) |-> BusCall("_write_byte", segments[i])]
            \o << BusCall("_stop", 0) >>)

(* Mutation: the data frame is not closed before the display control frame *)
write_NoStop(segments, pos, digits, bright) ==
    IF ~(0 <= pos /\ pos < digits)
    THEN Raise("ValueError: Position out of range")
    ELSE Ok(_write_data_cmd
            \o << BusCall("_start", 0),
                  BusCall("_write_byte", BitOr(TM1637_CMD2, pos)) >>
            \o [i \in 1..Len(segments) |-> BusCall("_write_byte", segments[i])]
            \o _write_dsp_ctrl(bright))

(* Mutation: the position is checked after the data command has been sent *)
write_CheckAfterDataCmd(segments, pos, digits, bright) ==
    IF ~(0 <= pos /\ pos < digits)
    THEN [err |-> "ValueError: Position out of range", log |-> _write_data_cmd]
    ELSE Ok(_write_data_cmd
            \o << BusCall("_start", 0),
                  BusCall("_write_byte", BitOr(TM1637_CMD2, pos)) >>
            \o [i \in 1..Len(segments) |-> BusCall("_write_byte", segments[i])]
            \o << BusCall("_stop", 0) >>
            \o _write_dsp_ctrl(bright))

write(segments, pos, digits, bright) ==
    IF ~(0 <= pos /\ pos < digits)
    THEN Raise("ValueError: Position out of range")
    ELSE Ok(_write_data_cmd
            \o << BusCall("_start", 0),
                  BusCall("_write_byte", BitOr(TM1637_CMD2, pos)) >>
            \o [i \in 1..Len(segments) |-> BusCall("_write_byte", segments[i])]
            \o << BusCall("_stop", 0) >>
            \o _write_dsp_ctrl(bright))

----------------------------------------------------------------------------
(* Character / digit encoding.  A character is its code point, a string a  *)
(* sequence of code points.  A value-returning method yields the exception *)
(* raised ("" for none) and the value.                                     *)

Ret(v) == [err |-> "", val |-> v]
Fail(e) == [err |-> e, val |-> << >>]

encode_digit(digit) == SegAt(digit % 16)

(* Mutation: the offset of the upper-case letters is off by one *)
encode_char_UpperOffByOne(o) ==
    IF o = 32 THEN Ret(SegAt(36))
    ELSE IF o = 42 THEN Ret(SegAt(38))
    ELSE IF o = 45 THEN Ret(SegAt(37))
    ELSE IF o >= 65 /\ o <= 90 THEN Ret(SegAt(o - 54))
    ELSE IF o >= 97 /\ o <= 122 THEN Ret(SegAt(o - 87))
    ELSE IF o >= 48 /\ o <= 57 THEN Ret(SegAt(o - 48))
    ELSE Fail("ValueError: Character out of range")

encode_char(o) ==
    IF o = 32 THEN Ret(SegAt(36))
    ELSE IF o = 42 THEN Ret(SegAt(38))
    ELSE IF o = 45 THEN Ret(SegAt(37))
    ELSE IF o >= 65 /\ o <= 90 THEN Ret(SegAt(o - 55))
    ELSE IF o >= 97 /\ o <= 122 THEN Ret(SegAt(o - 87))
    ELSE IF o >= 48 /\ o <= 57 THEN Ret(SegAt(o - 48))
    ELSE Fail("ValueError: Character out of range")

(* segments[i] = encode_char(c) for each character in turn; the first      *)
(* character that is not recognised raises                                  *)
RECURSIVE EncodeFrom(_, _)
EncodeFrom(string, i) ==
    IF i > Len(string) THEN Ret(<< >>)
    ELSE LET c == encode_char(string[i])
         IN  IF c.err # "" THEN Fail(c.err)
             ELSE LET rest == EncodeFrom(string, i + 1)
                  IN  IF rest.err # "" THEN rest
                      ELSE Ret(<< c.val >> \o rest.val)

encode_string(string) == EncodeFrom(string, 1)

(* TM1637Decimal.encode_string: segments holds the bytes assigned so far    *)
(* (j = Len(segments)); a '.' after the first character sets the MSB of    *)
(* the previous byte, every other character goes through encode_char       *)
RECURSIVE DecimalFrom(_, _, _)
DecimalFrom(string, i, segments) ==
    IF i > Len(string) THEN Ret(segments)
    ELSE IF string[i] = 46 /\ Len(segments) > 0
    THEN DecimalFrom(string, i + 1,
                     [segments EXCEPT ![Len(segments)] = BitOr(@, TM1637_MSB)])
    ELSE LET c == encode_char(string[i])
         IN  IF c.err # "" THEN Fail(c.err)
             ELSE DecimalFrom(string, i + 1, Append(segments, c.val))

Decimal_encode_string(string) == DecimalFrom(string, 1, << >>)

----------------------------------------------------------------------------
(* str.format as used by the rendering operations *)

Max(a, b) == IF a >= b THEN a ELSE b
Min(a, b) == IF a <= b THEN a ELSE b

(* decimal digits of n >= 0, most significant first, as characters *)
RECURSIVE DecChars(_)
DecChars(n) ==
    IF n < 10 THEN << 48 + n >> ELSE DecChars(n \div 10) \o << 48 + (n % 10) >>

(* '{:d}' *)
FormatD(num) == IF num < 0 THEN << 45 >> \o DecChars(0 - num) ELSE DecChars(num)

(* '{:F>Wd}' / '{:0Wx}': fill on the left up to the width, never truncate *)
PadLeft(s, fill, width) ==
    IF Len(s) >= width THEN s ELSE [i \in 1..(width - Len(s)) |-> fill] \o s

(* hexadecimal digit k of val in two's complement (val >> 4k) & 15 *)
RECURSIVE Nibble(_, _)
Nibble(val, k) == IF k = 0 THEN val % 16 ELSE Nibble(val \div 16, k - 1)

HexChar(n) == IF n < 10 THEN 48 + n ELSE 87 + n

RECURSIVE StripZeros(_)
StripZeros(s) ==
    IF Len(s) > 1 /\ s[1] = 48 THEN StripZeros(Tail(s)) ELSE s

(* '{:x}'.format(val & ((1 << bits) - 1)), bits a multiple of 4 *)
FormatMaskedX(val, bits) ==
    LET n == bits \div 4
    IN  StripZeros([k \in 1..n |-> HexChar(Nibble(val, n - k))])

(* 100 * 10 ** e, exact for e >= -2 *)
Pow10x100(e) == 10 ^ (e + 2)

----------------------------------------------------------------------------
(* Rendering operations *)

(* segments[1] |= 0x80 *)
OrSecond(segments) == [segments EXCEPT ![2] = BitOr(@, 128)]

(* self.write(self.encode_string(string)) *)
WriteString(string, digits, bright) ==
    LET e == encode_string(string)
    IN  IF e.err # "" THEN Raise(e.err) ELSE write(e.val, 0, digits, bright)

hex(val, digits, bright) ==
    WriteString(PadLeft(FormatMaskedX(val, 8 * digits), 48, digits), digits, bright)

(* Mutation: negative values are not clamped *)
number_NoLowerClamp(num, digits, bright) ==
    LET n == Min(num, 10 ^ digits - 1)
    IN  WriteString(PadLeft(FormatD(n), 32, digits), digits, bright)

number(num, digits, bright) ==
    LET n == Max(0 - 10 ^ (digits - 1) + 1, Min(num, 10 ^ digits - 1))
    IN  WriteString(PadLeft(FormatD(n), 32, digits), digits, bright)

(* Mutation: the colon is switched on whatever the flag says *)
hour_minute_AlwaysColon(hour, minute, colon, digits, bright) ==
    LET num1 == Max(-9, Min(hour, 99))
        num2 == Max(-9, Min(minute, 99))
        e == encode_string(PadLeft(FormatD(num1), 48, 2) \o PadLeft(FormatD(num2), 48, 2))
    IN  IF e.err # "" THEN Raise(e.err)
        ELSE write(OrSecond(e.val), 0, digits, bright)

hour_minute(hour, minute, colon, digits, bright) ==
    LET num1 == Max(-9, Min(hour, 99))
        num2 == Max(-9, Min(minute, 99))
        e == encode_string(PadLeft(FormatD(num1), 48, 2) \o PadLeft(FormatD(num2), 48, 2))
    IN  IF e.err # "" THEN Raise(e.err)
        ELSE write(IF colon THEN OrSecond(e.val) ELSE e.val, 0, digits, bright)

numbers(num1, num2, colon, digits, bright) ==
    hour_minute(num1, num2, colon, digits, bright)

show(string, colon, digits, bright) ==
    LET e == encode_string(SubSeq(string, 1, Min(digits, Len(string))))
    IN  IF e.err # "" THEN Raise(e.err)
        ELSE write(IF Len(e.val) > 1 /\ colon THEN OrSecond(e.val) ELSE e.val,
                   0, digits, bright)

STR_lo == << 108, 111 >>
STR_hi == << 104, 105 >>

temperature(num, digits, bright) ==
    Then(IF 100 * num < 0 - Pow10x100(digits - 3) + 100
           THEN show(STR_lo, FALSE, digits, bright)
         ELSE IF 100 * num > Pow10x100(digits - 2) - 100
           THEN show(STR_hi, FALSE, digits, bright)
         ELSE IF digits - 2 < 0
           THEN Raise("ValueError: Invalid format specifier")
         ELSE WriteString(PadLeft(FormatD(num), 32, digits - 2), digits, bright),
         write(<< SegAt(38), SegAt(12) >>, digits - 2, digits, bright))

RECURSIVE ScrollFrom(_, _, _, _, _, _)
ScrollFrom(data, i, n, delay, digits, bright) ==
    IF i >= n THEN Ok(<< >>)
    ELSE Then(Then(write(SubSeq(data, i + 1, Min(digits + i, Len(data))),
                         0, digits, bright),
                   Ok(<< BusCall("sleep_ms", delay) >>)),
              ScrollFrom(data, i + 1, n, delay, digits, bright))

(* isList: the argument is a list of segments; otherwise it is a string,    *)
(* whose encoding is a bytearray, which a list cannot be concatenated with  *)
scroll(string, isList, delay, digits, bright) ==
    LET e == IF isList THEN Ret(string) ELSE encode_string(string)
    IN  IF e.err # "" THEN Raise(e.err)
        ELSE IF ~isList THEN Raise("TypeError: unsupported types for __add__")
        ELSE LET blank == [i \in 1..digits |-> 0]
                 data == blank \o e.val \o blank
             IN  ScrollFrom(data, 0, Len(e.val) + digits + 1, delay, digits, bright)

----------------------------------------------------------------------------
(* Arguments the environment may pass *)

BrightnessArgs == -1 .. 8
DigitsArgs == 0 .. TM1637_MAX_DIGITS + 1
PosArgs == -1 .. TM1637_MAX_DIGITS

SampleSeg(i) == SegAt((i * 7) % 39) + TM1637_MSB * (i % 2)
SegmentArgs == { [i \in 1..n |-> SampleSeg(i)] : n \in 0..MaxLen }

HexArgs == { -1, 10, 74565 }
NumberArgs == { -5000, -7, 42, 12345 }
ClockArgs == { << 25, 61 >>, << -10, 100 >>, << 7, -9 >> }
TemperatureArgs == { -10, -9, 0, 5, 99, 100 }
(* "", "Hi", "12*C", "a.b", "-1234567" *)
StringArgs ==
    { << >>, << 72, 105 >>, << 49, 50, 42, 67 >>, << 97, 46, 98 >>,
      << 45, 49, 50, 51, 52, 53, 54, 55 >> }
(* "AB", "a.b" *)
ScrollStringArgs == { << 65, 66 >>, << 97, 46, 98 >> }
DelayArgs == { 250 }

ScrollArgs == { [i \in 1..n |-> SampleSeg(i)] : n \in 0..MaxScroll }
CharArgs == 0 .. MaxOrd
(* strings over '1', 'a', '.' *)
DecimalStringArgs == UNION { [1..n -> {49, 97, 46}] : n \in 0..MaxStr }

(* The record of a public call: positional integer arguments num1, num2,   *)
(* the flag argument (colon; for scroll: the argument is a list), the      *)
(* string or segment argument, the exception raised ("" for none) and the  *)
(* value returned (<< >> for None).                                         *)
Call(op, n1, n2, colon, data, err) ==
    [op |-> op, num1 |-> n1, num2 |-> n2, colon |-> colon, data |-> data,
     err |-> err, ret |-> << >>]

Returned(op, n1, data, r) ==
    [op |-> op, num1 |-> n1, num2 |-> 0, colon |-> FALSE, data |-> data,
     err |-> r.err, ret |-> IF r.err = "" THEN << r.val >> ELSE << >>]

----------------------------------------------------------------------------
(* State machine *)

Init ==
    /\ constructed = FALSE
    /\ _brightness = -1
    /\ _digits = -1
    /\ clk = -1
    /\ dio = -1
    /\ log = << >>
    /\ call = Call("none", 0, 0, FALSE, << >>, "")

(* The bus traffic of a call drives the lines *)
Drive(l) ==
    /\ log' = l
    /\ clk' = LineAfter(l, "clk", clk, Len(l))
    /\ dio' = LineAfter(l, "dio", dio, Len(l))

Construct(b, d) ==
    /\ ~constructed
    /\ LET r == __init__(b, d)
       IN  /\ call' = Call("__init__", b, d, FALSE, << >>, r.err)
           /\ Drive(r.log)
           /\ IF r.err = ""
              THEN constructed' = TRUE /\ _brightness' = b /\ _digits' = d
              ELSE UNCHANGED <<constructed, _brightness, _digits>>

Brightness(val) ==
    /\ constructed
    /\ LET r == brightness(val)
       IN  /\ call' = Call("brightness", val, 0, FALSE, << >>, r.err)
           /\ Drive(r.log)
           /\ _brightness' = IF r.err = "" THEN val ELSE _brightness
           /\ UNCHANGED <<constructed, _digits>>

BrightnessGet ==
    /\ constructed
    /\ call' = Returned("brightness()", 0, << >>, Ret(_brightness))
    /\ Drive(<< >>)
    /\ UNCHANGED <<constructed, _brightness, _digits>>

Write(segments, pos) ==
    /\ constructed
    /\ LET r == write(segments, pos, _digits, _brightness)
       IN  /\ call' = Call("write", pos, 0, FALSE, segments, r.err)
           /\ Drive(r.log)
           /\ UNCHANGED <<constructed, _brightness, _digits>>

(* A rendering operation changes no field of the handle *)
Render(op, n1, n2, colon, data, r) ==
    /\ constructed
    /\ call' = Call(op, n1, n2, colon, data, r.err)
    /\ Drive(r.log)
    /\ UNCHANGED <<constructed, _brightness, _digits>>

Hex(val) ==
    Render("hex", val, 0, FALSE, << >>, hex(val, _digits, _brightness))

Number(num) ==
    Render("number", num, 0, FALSE, << >>, number(num, _digits, _brightness))

HourMinute(hour, minute, colon) ==
    Render("hour_minute", hour, minute, colon, << >>,
           hour_minute(hour, minute, colon, _digits, _brightness))

Numbers(num1, num2, colon) ==
    Render("numbers", num1, num2, colon, << >>,
           numbers(num1, num2, colon, _digits, _brightness))

Temperature(num) ==
    Render("temperature", num, 0, FALSE, << >>,
           temperature(num, _digits, _brightness))

Show(string, colon) ==
    Render("show", 0, 0, colon, string, show(string, colon, _digits, _brightness))

Scroll(string, isList, delay) ==
    Render("scroll", delay, 0, isList, string,
           scroll(string, isList, delay, _digits, _brightness))

Next ==
    \/ \E b \in BrightnessArgs, d \in DigitsArgs : Construct(b, d)
    \/ \E val \in BrightnessArgs : Brightness(val)
    \/ BrightnessGet
    \/ \E segments \in SegmentArgs, pos \in PosArgs : Write(segments, pos)
    \/ \E val \in HexArgs : Hex(val)
    \/ \E num \in NumberArgs : Number(num)
    \/ \E hm \in ClockArgs, colon \in BOOLEAN : HourMinute(hm[1], hm[2], colon)
    \/ \E hm \in ClockArgs : Numbers(hm[1], hm[2], TRUE)
    \/ \E num \in TemperatureArgs : Temperature(num)
    \/ \E string \in StringArgs, colon \in BOOLEAN : Show(string, colon)
    \/ \E segments \in ScrollArgs, delay \in DelayArgs : Scroll(segments, TRUE, delay)
    \/ \E string \in ScrollStringArgs, delay \in DelayArgs : Scroll(string, FALSE, delay)

Spec == Init /\ [][Next]_vars

----------------------------------------------------------------------------
(* The encoder on its own: a handle constructed with the default           *)
(* brightness and digit count, on which encode_char and the decimal-point  *)
(* variant's encode_string are called.                                     *)

DefaultBrightness == 7
DefaultDigits == 4

InitEncode ==
    LET r == __init__(DefaultBrightness, DefaultDigits)
    IN  /\ constructed = TRUE
        /\ _brightness = DefaultBrightness
        /\ _digits = DefaultDigits
        /\ clk = LineAfter(r.log, "clk", -1, Len(r.log))
        /\ dio = LineAfter(r.log, "dio", -1, Len(r.log))
        /\ log = r.log
        /\ call = Call("__init__", DefaultBrightness, DefaultDigits, FALSE, << >>, r.err)

EncodeChar(o) ==
    /\ constructed
    /\ call' = Returned("encode_char", o, << >>, encode_char(o))
    /\ Drive(<< >>)
    /\ UNCHANGED <<constructed, _brightness, _digits>>

DecimalEncodeString(string) ==
    /\ constructed
    /\ call' = Returned("Decimal.encode_string", 0, string,
                        Decimal_encode_string(string))
    /\ Drive(<< >>)
    /\ UNCHANGED <<constructed, _brightness, _digits>>

NextEncode ==
    \/ \E o \in CharArgs : EncodeChar(o)
    \/ \E string \in DecimalStringArgs : DecimalEncodeString(string)

SpecEncode == InitEncode /\ [][NextEncode]_vars

----------------------------------------------------------------------------
(* Observation of the bus: what a receiver on the two lines sees.          *)

IsByte(c) == c.fn = "_write_byte"

(* The bytes handed to _write_byte in a call trace, in order *)
BytesSent(l) == [i \in 1..Len(SelectSeq(l, IsByte)) |-> SelectSeq(l, IsByte)[i].arg]

IsDelimiter(c) == c.fn \in {"_start", "_stop"}

(* The _start that opens the frame closed by entry j of l: the last _start *)
(* before j with no other _start or _stop in between (empty if none)       *)
Opener(l, j) ==
    { i \in 1..(j - 1) : /\ l[i].fn = "_start"
                         /\ \A m \in (i + 1)..(j - 1) : ~IsDelimiter(l[m]) }

(* Indices of the _stop entries of l that close a frame *)
FrameEnds(l) == { j \in 1..Len(l) : l[j].fn = "_stop" /\ Opener(l, j) # {} }

(* The k-th smallest element of a finite set of integers, by rank *)
Ranked(S, k) == CHOOSE x \in S : Cardinality({ y \in S : y <= x }) = k

(* The bytes of the frame closed by entry j of l *)
FrameAt(l, j) ==
    LET i == CHOOSE x \in Opener(l, j) : TRUE
    IN  BytesSent(SubSeq(l, i + 1, j - 1))

(* The frames of a call trace: for each _start ... _stop pair, the bytes   *)
(* written between the two                                                  *)
Frames(l) ==
    LET E == FrameEnds(l)
    IN  [k \in 1..Cardinality(E) |-> FrameAt(l, Ranked(E, k))]

IsLineWrite(e) == e.pin \in {"clk", "dio"}

(* Level of the clock line before pin event i of ev, from level c0 *)
ClkBefore(ev, i, c0) == LevelAfter(ev, "clk", c0, i - 1)
DioBefore(ev, i, d0) == LevelAfter(ev, "dio", d0, i - 1)

(* Indices of the rising clock edges in ev, the clock starting low *)
RisingEdges(ev) ==
    { i \in 1..Len(ev) : ev[i] = SetClk(1) /\ ClkBefore(ev, i, 0) = 0 }

(* The k-th smallest element of a finite set of integers *)
RECURSIVE Kth(_, _)
Kth(S, k) ==
    LET m == CHOOSE x \in S : \A y \in S : x <= y
    IN  IF k = 1 THEN m ELSE Kth(S \ {m}, k - 1)

(* Level of the data line at the k-th rising clock edge of ev *)
Sampled(ev, k) == DioBefore(ev, Kth(RisingEdges(ev), k), -1)

(* Indices of the writes to the data line in ev *)
DioWrites(ev) == { i \in 1..Len(ev) : ev[i].pin = "dio" }

----------------------------------------------------------------------------
(* C1: a successful write(segments, pos) transmits exactly three frames,   *)
(* in this order: the data command 0x40 alone; the address command         *)
(* 0xC0|pos followed by the segments in the given order; the display       *)
(* control 0x80|0x08|brightness alone.  No other byte is transmitted.      *)
C1_WriteThreeFrames ==
    (call.op = "write" /\ call.err = "") =>
        /\ Frames(log) = << << 64 >>,
                            << 192 + call.num1 >> \o call.data,
                            << 136 + _brightness >> >>
        /\ BytesSent(log) = << 64, 192 + call.num1 >> \o call.data
                            \o << 136 + _brightness >>

C1_Witness ==
    /\ call.op = "write" /\ call.err = ""
    /\ call.num1 = 2 /\ Len(call.data) = 3 /\ _brightness = 5
    /\ Len(Frames(log)) = 3

(* C2: write(segments, pos) with pos < 0 or pos >= digit count raises the  *)
(* out-of-range error before any bus transmission: the call makes no bus   *)
(* call and both lines keep their level.                                   *)
C2_WriteRejectsBeforeBus ==
    [][(call'.op = "write" /\ ~(0 <= call'.num1 /\ call'.num1 < _digits)) =>
         /\ call'.err = "ValueError: Position out of range"
         /\ log' = << >>
         /\ clk' = clk /\ dio' = dio]_vars

C2_Witness ==
    /\ call.op = "write" /\ call.num1 = _digits /\ Len(call.data) = 2
    /\ call.err = "ValueError: Position out of range"
    /\ log = << >>

(* C3: every _write_byte(b) puts the 8 bits of b on the data line least    *)
(* significant first, each set while the clock is low and followed by one  *)
(* clock pulse; then one more clock pulse (low, high, low) follows during  *)
(* which the data line is not written.  It gives exactly 9 clock-high      *)
(* pulses and ends with the clock low.                                     *)
C3_ByteOk(i) ==
    LET ev == PinsOf(log[i])
        b == log[i].arg
        edges == RisingEdges(ev)
        dw == DioWrites(ev)
    IN  /\ LineAfter(log, "clk", -1, i - 1) = 0
        /\ Cardinality(edges) = 9
        /\ Cardinality(dw) = 8
        /\ \A k \in 1..8 :
              /\ Kth(dw, k) < Kth(edges, k)
              /\ k < 8 => Kth(edges, k) < Kth(dw, k + 1)
              /\ ClkBefore(ev, Kth(dw, k), 0) = 0
              /\ Sampled(ev, k) = (b \div 2 ^ (k - 1)) % 2
        /\ Kth(dw, 8) < Kth(edges, 9)
        /\ Sampled(ev, 9) = (b \div 128) % 2
        /\ SubSeq(ev, Kth(edges, 8) + 1, Len(ev)) =
              << SleepUs(10), SetClk(0), SleepUs(10), SetClk(0), SleepUs(10),
                 SetClk(1), SleepUs(10), SetClk(0), SleepUs(10) >>
        /\ LevelAfter(ev, "clk", 0, Len(ev)) = 0

C3_WriteByteLsbFirst ==
    \A i \in 1..Len(log) : IsByte(log[i]) => C3_ByteOk(i)

C3_Witness ==
    \E i \in 1..Len(log) :
        /\ IsByte(log[i]) /\ log[i].arg = 184
        /\ Sampled(PinsOf(log[i]), 1) = 0 /\ Sampled(PinsOf(log[i]), 4) = 1

(* C4: between every two consecutive writes to the clock or data line made *)
(* by a call a delay occurs, also where one frame's stop is followed by    *)
(* the next frame's start.                                                 *)
C4_DelayBetweenLineWrites ==
    LET ev == Pins(log)
    IN  \A i \in 1..(Len(ev) - 1) : ~(IsLineWrite(ev[i]) /\ IsLineWrite(ev[i + 1]))

(* C5: brightness(b) succeeds for 0 <= b <= 7 and stores b; otherwise it   *)
(* raises, leaves the stored brightness unchanged and makes no bus call.   *)
C5_BrightnessValidated ==
    [][call'.op = "brightness" =>
         IF 0 <= call'.num1 /\ call'.num1 <= 7
         THEN call'.err = "" /\ _brightness' = call'.num1
         ELSE /\ call'.err = "ValueError: Brightness out of range"
              /\ _brightness' = _brightness
              /\ log' = << >> /\ clk' = clk /\ dio' = dio]_vars

C5_Witness ==
    /\ call.op = "brightness" /\ call.num1 = 8 /\ call.err # ""
    /\ _brightness = 3 /\ log = << >>

(* A display-control frame: one whose first byte has the top bits 10 *)
IsDspCtrl(f) == Len(f) > 0 /\ f[1] >= 128 /\ f[1] < 192

(* C6: after construction and after every completed brightness(level) or   *)
(* write the last display-control byte transmitted is 0x80|0x08|stored     *)
(* brightness; construction and a brightness change transmit a data        *)
(* command frame and then the display-control frame with the new level;    *)
(* every display-control byte sent has the display-on bit 0x08 set.        *)
C6_DisplayControlFollowsBrightness ==
    /\ (call.err = "" /\ call.op \in {"__init__", "brightness", "write"}) =>
          LET F == Frames(log)
          IN  /\ Len(F) >= 2
              /\ F[Len(F)] = << 136 + _brightness >>
              /\ call.op \in {"__init__", "brightness"} =>
                    F = << << 64 >>, << 136 + _brightness >> >>
    /\ LET G == Frames(log)
       IN  \A k \in 1..Len(G) : IsDspCtrl(G[k]) => (G[k][1] \div 8) % 2 = 1

C6_Witness ==
    /\ call.op = "brightness" /\ call.err = "" /\ call.num1 = 2
    /\ _brightness = 2
    /\ Frames(log) = << << 64 >>, << 138 >> >>

(* C7: construction with brightness b and digit count d succeeds exactly   *)
(* when 0 <= b <= 7 and 1 <= d <= 6; on success it transmits the data      *)
(* command frame 0x40 and then the display-control frame 0x88|b; otherwise *)
(* it raises and no line is initialised or driven.                         *)
C7_ConstructionValidated ==
    call.op = "__init__" =>
        /\ call.err = "" <=> (/\ 0 <= call.num1 /\ call.num1 <= 7
                              /\ 1 <= call.num2 /\ call.num2 <= 6)
        /\ call.err = "" =>
              /\ constructed /\ _brightness = call.num1 /\ _digits = call.num2
              /\ Frames(log) = << << 64 >>, << 136 + call.num1 >> >>
              /\ BytesSent(log) = << 64, 136 + call.num1 >>
        /\ call.err # "" =>
              /\ ~constructed
              /\ log = << >> /\ clk = -1 /\ dio = -1

C7_Witness ==
    /\ call.op = "__init__" /\ call.err = "" /\ call.num1 = 0 /\ call.num2 = 6
    /\ Frames(log) = << << 64 >>, << 136 >> >>

(* C8: once constructed, the stored brightness is in 0..7 and the digit    *)
(* count is in 1..6; no operation changes the digit count, and the stored  *)
(* brightness changes only to the in-range argument of a brightness call   *)
(* (never to a clamped value).                                             *)
C8_BoundsInvariant ==
    /\ [](constructed =>
            /\ _brightness \in 0..7
            /\ _digits \in 1..6)
    /\ [][constructed =>
            /\ constructed'
            /\ _digits' = _digits
            /\ _brightness' # _brightness =>
                  /\ call'.op = "brightness" /\ call'.err = ""
                  /\ _brightness' = call'.num1]_vars
    /\ [][call'.op = "__init__" /\ constructed' => _digits' = call'.num2]_vars

C8_Witness ==
    /\ constructed /\ call.op = "brightness" /\ call.num1 = -1 /\ call.err # ""
    /\ _brightness = 0 /\ _digits = 1

(* C9: whenever a public operation raises, the call has changed neither    *)
(* the stored brightness nor the digit count and has transmitted nothing.  *)
C9_FailedCallChangesNothing ==
    [][(constructed /\ call'.err # "") =>
         /\ _brightness' = _brightness
         /\ _digits' = _digits
         /\ BytesSent(log') = << >>]_vars

----------------------------------------------------------------------------
(* C10: encode_char gives the segment-table entry of the character's       *)
(* class: '0'..'9' entries 0..9, 'A'..'Z' and 'a'..'z' entries 10..35 (the *)
(* same entry for both cases), ' ' entry 36, '-' entry 37, '*' entry 38;   *)
(* every other character raises the out-of-range error.                    *)
C10_Index(o) ==
    CASE o \in 48..57 -> o - 48
      [] o \in 65..90 -> 10 + (o - 65)
      [] o \in 97..122 -> 10 + (o - 97)
      [] o = 32 -> 36
      [] o = 45 -> 37
      [] o = 42 -> 38
      [] OTHER -> -1

C10_EncodeCharTable ==
    call.op = "encode_char" =>
        IF C10_Index(call.num1) >= 0
        THEN call.err = "" /\ call.ret = << _SEGMENTS[C10_Index(call.num1) + 1] >>
        ELSE call.err = "ValueError: Character out of range" /\ call.ret = << >>

C10_Witness ==
    /\ call.op = "encode_char" /\ call.num1 = 122
    /\ call.err = "" /\ call.ret = << 91 >>

----------------------------------------------------------------------------
(* The text without its dots, and the number of dots right after the k-th  *)
(* character that is not a dot                                              *)
NotDot(c) == c # 46
NoDots(string) == SelectSeq(string, NotDot)

(* Index in string of its k-th character that is not a dot *)
RECURSIVE NthNotDot(_, _, _)
NthNotDot(string, k, i) ==
    IF string[i] # 46
    THEN (IF k = 1 THEN i ELSE NthNotDot(string, k - 1, i + 1))
    ELSE NthNotDot(string, k, i + 1)

DotFollows(string, k) ==
    LET i == NthNotDot(string, k, 1)
    IN  i < Len(string) /\ string[i + 1] = 46

(* C11: for the decimal-point variant, encode_string of a text of          *)
(* recognised characters and dots returns one byte per character that is   *)
(* not a dot, in order: its encode_char value, with 0x80 set when one or   *)
(* more dots follow it directly.                                           *)
C11_DecimalEncodeString ==
    call.op = "Decimal.encode_string" =>
        LET text == call.data
            chars == NoDots(text)
        IN  /\ call.err = ""
            /\ Len(call.ret[1]) = Len(text) - Cardinality({i \in 1..Len(text) : text[i] = 46})
            /\ \A k \in 1..Len(chars) :
                  call.ret[1][k] =
                      encode_char(chars[k]).val
                      + (IF DotFollows(text, k) THEN 128 ELSE 0)

(* C12: for the decimal-point variant, encode_string of a text that begins *)
(* with a dot does not raise: the leading dot is ignored and the rest is   *)
(* encoded as usual.                                                       *)
C12_LeadingDotIgnored ==
    (call.op = "Decimal.encode_string" /\ Len(call.data) > 0 /\ call.data[1] = 46) =>
        /\ call.err = ""
        /\ call.ret = << Decimal_encode_string(Tail(call.data)).val >>

----------------------------------------------------------------------------
(* Expected renderings, stated digit by digit *)

(* Number of decimal digits of m >= 0 *)
NumDigits(m) == CHOOSE k \in 1..10 : m < 10 ^ k /\ (k = 1 \/ m >= 10 ^ (k - 1))

(* Segment shown k places from the right when n is written right-aligned   *)
(* with leading blanks: a digit, the minus sign left of the digits, blank  *)
Cell(n, k) ==
    LET m == IF n < 0 THEN 0 - n ELSE n
    IN  IF k < NumDigits(m) THEN _SEGMENTS[((m \div 10 ^ k) % 10) + 1]
        ELSE IF k = NumDigits(m) /\ n < 0 THEN 64
        ELSE 0

RightAligned(n, w) == [i \in 1..w |-> Cell(n, w - i)]

Clamp(v, lo, hi) == IF v > hi THEN hi ELSE IF v < lo THEN lo ELSE v

(* C13: hex(value) masks value to its low 4*d bits and writes at position  *)
(* 0 exactly d segments: the hexadecimal digits of the masked value, most  *)
(* significant first, zero padded.                                         *)
C13_HexMaskedToDigits ==
    call.op = "hex" =>
        /\ call.err = ""
        /\ Frames(log) =
              << << 64 >>,
                 << 192 >> \o [k \in 1.._digits |->
                     _SEGMENTS[(((call.num1 % 16 ^ _digits) \div 16 ^ (_digits - k)) % 16) + 1]],
                 << 136 + _brightness >> >>

(* C14: number(value) clamps value to [-(10^(d-1))+1, 10^d - 1] and writes *)
(* at position 0 exactly d segments: the decimal text of the clamped value *)
(* right-aligned with leading blanks.                                      *)
C14_NumberClamped ==
    call.op = "number" =>
        /\ call.err = ""
        /\ Frames(log) =
              << << 64 >>,
                 << 192 >> \o RightAligned(Clamp(call.num1, 1 - 10 ^ (_digits - 1),
                                                10 ^ _digits - 1), _digits),
                 << 136 + _brightness >> >>

C14_Witness ==
    /\ call.op = "number" /\ call.num1 = -5000 /\ _digits = 4 /\ call.err = ""
    /\ Frames(log)[2] = << 192, 64, 111, 111, 111 >>

(* C15: temperature(value) shows "lo" below the low bound, "hi" above the  *)
(* high bound and otherwise the value right-aligned in d-2 columns, and in *)
(* every case then writes the degree glyph and the letter C at positions   *)
(* d-2 and d-1, for every digit count d in 1..6.                           *)
C15_Shown ==
    IF 100 * call.num1 < 100 - 10 ^ (_digits - 1)
    THEN SubSeq(<< 56, 63 >>, 1, IF _digits < 2 THEN _digits ELSE 2)
    ELSE IF 100 * call.num1 > 10 ^ _digits - 100
    THEN SubSeq(<< 118, 6 >>, 1, IF _digits < 2 THEN _digits ELSE 2)
    ELSE RightAligned(call.num1, _digits - 2)

C15_TemperatureShown ==
    call.op = "temperature" =>
        /\ call.err = ""
        /\ Frames(log) =
              << << 64 >>, << 192 >> \o C15_Shown, << 136 + _brightness >>,
                 << 64 >>, << 192 + (_digits - 2), 99, 57 >>,
                 << 136 + _brightness >> >>

(* Two characters for a value in -9..99: zero padded, or minus and digit *)
TwoCells(n) ==
    IF n < 0 THEN << 64, _SEGMENTS[(0 - n) + 1] >>
    ELSE << _SEGMENTS[(n \div 10) + 1], _SEGMENTS[(n % 10) + 1] >>

(* C16: hour_minute(h, m, colon) and numbers clamp h and m to [-9, 99],    *)
(* render each as 2 characters zero padded on the left and write the 4     *)
(* segment bytes at position 0, bit 0x80 being set in the second byte      *)
(* exactly when colon is true.                                             *)
C16_HourMinute ==
    call.op \in {"hour_minute", "numbers"} =>
        LET h == TwoCells(Clamp(call.num1, -9, 99))
            m == TwoCells(Clamp(call.num2, -9, 99))
        IN  /\ call.err = ""
            /\ Frames(log) =
                  << << 64 >>,
                     << 192, h[1], h[2] + (IF call.colon THEN 128 ELSE 0),
                        m[1], m[2] >>,
                     << 136 + _brightness >> >>

C16_Witness ==
    /\ call.op = "hour_minute" /\ call.num1 = 25 /\ call.num2 = 61 /\ call.colon
    /\ _digits = 4 /\ call.err = ""
    /\ Frames(log)[2] = << 192, 91, 237, 125, 6 >>

(* The encoded input of a scroll: the list itself, or one byte per         *)
(* character of the string                                                  *)
C17_Padded ==
    LET blank == [i \in 1.._digits |-> 0]
        segs == IF call.colon THEN call.data ELSE encode_string(call.data).val
    IN  blank \o segs \o blank

(* C17: scroll(input, delay), the input a string or a segment sequence of  *)
(* length n, makes exactly n + d + 1 writes at position 0 and returns; the *)
(* i-th write is the d-wide window [i, i+d) of the input padded with d     *)
(* blanks on each side, the first and the last window are blank, and a     *)
(* delay of delay ms follows each write.                                   *)
C17_ScrollWindows ==
    call.op = "scroll" =>
        LET n == Len(call.data)
            step == 10 + _digits
        IN  /\ call.err = ""
            /\ Len(log) = (n + _digits + 1) * step
            /\ \A i \in 0..(n + _digits) :
                  /\ Frames(SubSeq(log, i * step + 1, (i + 1) * step - 1)) =
                        << << 64 >>,
                           << 192 >> \o SubSeq(C17_Padded, i + 1, i + _digits),
                           << 136 + _brightness >> >>
                  /\ log[(i + 1) * step] = BusCall("sleep_ms", call.num1)
            /\ Frames(log)[2] = << 192 >> \o [i \in 1.._digits |-> 0]
            /\ Frames(log)[3 * (n + _digits) + 2] = << 192 >> \o [i \in 1.._digits |-> 0]

IsFraming(c) == c.fn \in {"_start", "_write_byte", "_stop"}

(* A call trace is well framed: among its _start, _write_byte and _stop    *)
(* entries a _start comes only when no frame is open (first, or right      *)
(* after a _stop), a _write_byte and a _stop only inside a frame (after a  *)
(* _start or a _write_byte), and no frame is open at the end               *)
WellFramed(l) ==
    LET f == SelectSeq(l, IsFraming)
    IN  /\ \A i \in 1..Len(f) :
              IF f[i].fn = "_start" THEN i = 1 \/ f[i - 1].fn = "_stop"
              ELSE i > 1 /\ f[i - 1].fn # "_stop"
        /\ Len(f) > 0 => f[Len(f)].fn = "_stop"

(* C18: in the bus traffic of every call start and stop alternate,         *)
(* beginning with a start, every byte lies between a start and the next    *)
(* stop, frames do not nest, and when the call returns or raises no frame  *)
(* is open: its last bus event, if any, is a stop.                         *)
C18_WellFramed ==
    /\ WellFramed(log)
    /\ LET f == SelectSeq(log, IsFraming)
       IN  Len(f) > 0 => f[1].fn = "_start" /\ f[Len(f)].fn = "_stop"

C18_Witness ==
    /\ call.op = "temperature" /\ call.err # "" /\ Len(log) > 0
    /\ log[Len(log)].fn = "_stop"

(* C19: at every _start, the first one of construction included, the clock *)
(* line and the data line are both high.                                   *)
C19_StartFromIdle ==
    [][\A i \in 1..Len(log') :
          log'[i].fn = "_start" =>
              /\ LineAfter(log', "clk", clk, i - 1) = 1
              /\ LineAfter(log', "dio", dio, i - 1) = 1]_vars

(* C20: every frame a rendering operation writes addresses existing digits *)
(* only: the start position plus the number of segment bytes of the frame  *)
(* does not exceed the digit count.                                        *)
C20_FramesWithinDigits ==
    call.op \in {"hex", "number", "hour_minute", "numbers", "temperature",
                 "show", "scroll"} =>
        LET F == Frames(log)
        IN  \A k \in 1..Len(F) :
                (Len(F[k]) > 0 /\ F[k][1] >= 192) =>
                    (F[k][1] - 192) + (Len(F[k]) - 1) <= _digits

====
